---------------------------- MODULE Spec2Model ----------------------------
(***************************************************************************)
(* Six Thinking Hats app: the React client (frontend/src/App.jsx) and the  *)
(* analysis endpoint it talks to.                                          *)
(*                                                                         *)
(* Text is modelled as a sequence of one-character strings, so that        *)
(* trimming, joining and the headings of buildStructuredText are computed  *)
(* character by character.  Messages shown to the user are TLA+ strings.   *)
(***************************************************************************)
EXTENDS Naturals, Sequences, FiniteSets

(***************************************************************************)
(* Bounds of the model.                                                    *)
(***************************************************************************)
\* SpecText: total number of characters typed into the five template fields.
MaxTextChars == 4
\* SpecInput: total number of characters typed into the five template fields.
MaxFieldChars == 1
\* Every specification but SpecText and SpecInput: length of the topic the
\* user types.
MaxTopicLen == 1
\* SpecExport, SpecNotes: total number of characters of group notes over
\* the six hats.
MaxNoteChars == 1
\* SpecExport, SpecNotes, SpecMobile: number of per-role backend calls that
\* fail in one
\* analysis the endpoint answers.
MaxFailedRoles == 1
\* SpecReport: total number of characters of group notes over the hats the
\* user visits.
MaxReportNoteChars == 2

(***************************************************************************)
(* HATS (App.jsx 5-42): the six role keys, in display order.               *)
(***************************************************************************)
HATS == << "blue", "white", "red", "yellow", "black", "green" >>

HatKeys == { HATS[i] : i \in 1..Len(HATS) }

\* JavaScript null / undefined.
Null == [null |-> TRUE]

(***************************************************************************)
(* Text helpers: String.prototype.trim and Array.prototype.join.           *)
(***************************************************************************)
\* The characters the user types in the model.
Alphabet == { " ", "a" }

\* White space as String.prototype.trim sees it.
WhiteSpace == { " ", "\n", "\t" }

\* All texts over S of length at most n.
Strings(S, n) == UNION { [1..k -> S] : k \in 0..n }

RECURSIVE TrimStart(_)
TrimStart(s) ==
    IF s = << >> THEN << >>
    ELSE IF Head(s) \in WhiteSpace THEN TrimStart(Tail(s))
    ELSE s

RECURSIVE TrimEnd(_)
TrimEnd(s) ==
    IF s = << >> THEN << >>
    ELSE IF s[Len(s)] \in WhiteSpace THEN TrimEnd(SubSeq(s, 1, Len(s) - 1))
    ELSE s

\* s.trim()
Trim(s) == TrimEnd(TrimStart(s))

\* lines.join(sep)
RECURSIVE Join(_, _)
Join(lines, sep) ==
    IF lines = << >> THEN << >>
    ELSE IF Len(lines) = 1 THEN lines[1]
    ELSE lines[1] \o sep \o Join(Tail(lines), sep)

TopicHeading ==
    << "#", " ", "T", "o", "p", "i", "c", " ", "/", " ", "P", "r", "o", "b",
       "l", "e", "m", " ", "S", "t", "a", "t", "e", "m", "e", "n", "t" >>

DecisionHeading ==
    << "#", " ", "D", "e", "c", "i", "s", "i", "o", "n", " ", "t", "o", " ",
       "m", "a", "k", "e", " ", "(", "B", "l", "u", "e", " ", "H", "a", "t",
       ")" >>

StakeholdersHeading ==
    << "#", " ", "S", "t", "a", "k", "e", "h", "o", "l", "d", "e", "r", "s" >>

ConstraintsHeading ==
    << "#", " ", "C", "o", "n", "s", "t", "r", "a", "i", "n", "t", "s", " ",
       "/", " ", "N", "o", "n", "-", "n", "e", "g", "o", "t", "i", "a", "b",
       "l", "e", "s" >>

ContextHeading ==
    << "#", " ", "C", "o", "n", "t", "e", "x", "t", " ", "(", "o", "p", "t",
       "i", "o", "n", "a", "l", ")" >>

(***************************************************************************)
(* buildStructuredText (App.jsx 48-76).                                    *)
(***************************************************************************)
\* The mutant of PushField that pushes the value untrimmed.
PushFieldUntrimmed(lines, heading, value) ==
    IF Trim(value) # << >>
    THEN lines \o << heading, value, << >> >>
    ELSE lines

\* One `if (field?.trim()) { lines.push(heading); lines.push(field.trim());
\* lines.push('') }` block: the lines it appends.
PushField(lines, heading, value) ==
    IF Trim(value) # << >>
    THEN lines \o << heading, Trim(value), << >> >>
    ELSE lines

buildStructuredText(t, d, s, c, x) ==
    LET l1 == PushField(<< >>, TopicHeading, t)
        l2 == PushField(l1, DecisionHeading, d)
        l3 == PushField(l2, StakeholdersHeading, s)
        l4 == PushField(l3, ConstraintsHeading, c)
        l5 == PushField(l4, ContextHeading, x)
    IN  Trim(Join(l5, << "\n" >>))

(***************************************************************************)
(* State.                                                                  *)
(***************************************************************************)
VARIABLES
    mode,            \* 'text' | 'pdf'                        (App.jsx 79)
    topic,           \* template fields                    (App.jsx 82-86)
    decision,
    stakeholders,
    constraints,
    context,
    fileValue,       \* the selected File, or Null            (App.jsx 88)
    analysis,        \* role -> HatResult, or Null            (App.jsx 90)
    analysisMeta,    \* data.meta the held analysis came with, or Null
                     \*                                  (App.jsx 146-148)
    selectedHat,     \*                                       (App.jsx 91)
    loading,         \*                                       (App.jsx 92)
    error,           \*                                       (App.jsx 93)
    downloadLoading, \*                                       (App.jsx 94)
    answerLength,    \* 'long' | 'short'                      (App.jsx 95)
    notesByHat,      \* role -> text                          (App.jsx 98)
    isMobile,        \*                                      (App.jsx 160)
    hatMenuOpen,     \*                                      (App.jsx 161)
    analyzeReq,      \* the POST /api/analyze in flight, or Null
    pdfReq,          \* the POST /api/generate-pdf in flight, or Null
    copyPending,     \* a clipboard write of handleCopy is pending
    srv,             \* endpoint: "idle" | "running" | "responded"
    calls,           \* endpoint: role -> "idle"|"pending"|"ok"|"failed"
    serverResp       \* endpoint: the response on its way back, or Null

fieldVars == << topic, decision, stakeholders, constraints, context >>

inputVars == << mode, fileValue, answerLength >>

viewVars == << selectedHat, isMobile, hatMenuOpen >>

serverVars == << srv, calls, serverResp >>

vars ==
    << mode, topic, decision, stakeholders, constraints, context, fileValue,
       analysis, analysisMeta, selectedHat, loading, error,
       downloadLoading, answerLength,
       notesByHat, isMobile, hatMenuOpen, analyzeReq, pdfReq, copyPending,
       srv, calls, serverResp >>

\* useMemo structuredText (App.jsx 102-105)
structuredText ==
    buildStructuredText(topic, decision, stakeholders, constraints, context)

\* useMemo isReadyToAnalyze (App.jsx 107-112)
isReadyToAnalyze ==
    IF mode = "text" THEN Len(Trim(structuredText)) > 0
    ELSE fileValue # Null

\* The useState initial values (App.jsx 79-98, 160-161); nothing in flight.
Init ==
    /\ mode = "text"
    /\ topic = << >>
    /\ decision = << >>
    /\ stakeholders = << >>
    /\ constraints = << >>
    /\ context = << >>
    /\ fileValue = Null
    /\ analysis = Null
    /\ analysisMeta = Null
    /\ selectedHat = "blue"
    /\ loading = FALSE
    /\ error = ""
    /\ downloadLoading = FALSE
    /\ answerLength = "long"
    /\ notesByHat = [h \in HatKeys |-> << >>]
    /\ isMobile = FALSE
    /\ hatMenuOpen = FALSE
    /\ analyzeReq = Null
    /\ pdfReq = Null
    /\ copyPending = FALSE
    /\ srv = "idle"
    /\ calls = [h \in HatKeys |-> "idle"]
    /\ serverResp = Null

(***************************************************************************)
(* Input controls.                                                         *)
(***************************************************************************)
\* Characters held by the five template fields after a field of length
\* `old` is replaced by v.
FieldChars(old, v) ==
    Len(topic) + Len(decision) + Len(stakeholders) + Len(constraints)
        + Len(context) - old + Len(v)

\* onChange of #topic (App.jsx 321)
SetTopic(v) ==
    /\ topic' = v
    /\ UNCHANGED << mode, decision, stakeholders, constraints, context,
                    fileValue, analysis, analysisMeta, selectedHat,
                    loading, error,
                    downloadLoading, answerLength, notesByHat, isMobile,
                    hatMenuOpen, analyzeReq, pdfReq, copyPending, srv, calls,
                    serverResp >>

\* onChange of #decision (App.jsx 333)
SetDecision(v) ==
    /\ decision' = v
    /\ UNCHANGED << mode, topic, stakeholders, constraints, context,
                    fileValue, analysis, analysisMeta, selectedHat,
                    loading, error,
                    downloadLoading, answerLength, notesByHat, isMobile,
                    hatMenuOpen, analyzeReq, pdfReq, copyPending, srv, calls,
                    serverResp >>

\* onChange of #stakeholders (App.jsx 344)
SetStakeholders(v) ==
    /\ stakeholders' = v
    /\ UNCHANGED << mode, topic, decision, constraints, context,
                    fileValue, analysis, analysisMeta, selectedHat,
                    loading, error,
                    downloadLoading, answerLength, notesByHat, isMobile,
                    hatMenuOpen, analyzeReq, pdfReq, copyPending, srv, calls,
                    serverResp >>

\* onChange of #constraints (App.jsx 355)
SetConstraints(v) ==
    /\ constraints' = v
    /\ UNCHANGED << mode, topic, decision, stakeholders, context,
                    fileValue, analysis, analysisMeta, selectedHat,
                    loading, error,
                    downloadLoading, answerLength, notesByHat, isMobile,
                    hatMenuOpen, analyzeReq, pdfReq, copyPending, srv, calls,
                    serverResp >>

\* onChange of #context (App.jsx 366)
SetContext(v) ==
    /\ context' = v
    /\ UNCHANGED << mode, topic, decision, stakeholders, constraints,
                    fileValue, analysis, analysisMeta, selectedHat,
                    loading, error,
                    downloadLoading, answerLength, notesByHat, isMobile,
                    hatMenuOpen, analyzeReq, pdfReq, copyPending, srv, calls,
                    serverResp >>

\* onClick of the Text / PDF tabs (App.jsx 276, 285)
SetMode(m) ==
    /\ mode' = m
    /\ UNCHANGED << fieldVars, fileValue, analysis, analysisMeta,
                    selectedHat, loading,
                    error, downloadLoading, answerLength, notesByHat,
                    isMobile, hatMenuOpen, analyzeReq, pdfReq, copyPending,
                    serverVars >>

\* The files the user can pick: one with embedded text, one scanned.
Files ==
    { [name |-> "notes.pdf", hasText |-> TRUE],
      [name |-> "scan.pdf", hasText |-> FALSE] }

\* onChange of #pdf-upload: event.target.files?.[0] || null (App.jsx 397)
SetFileValue(f) ==
    /\ fileValue' = f
    /\ UNCHANGED << fieldVars, mode, analysis, analysisMeta, selectedHat,
                    loading, error,
                    downloadLoading, answerLength, notesByHat, isMobile,
                    hatMenuOpen, analyzeReq, pdfReq, copyPending,
                    serverVars >>

\* onClick of Long Answer / Short Answer (App.jsx 298, 306)
SetAnswerLength(l) ==
    /\ answerLength' = l
    /\ UNCHANGED << fieldVars, mode, fileValue, analysis, analysisMeta,
                    selectedHat,
                    loading, error, downloadLoading, notesByHat, isMobile,
                    hatMenuOpen, analyzeReq, pdfReq, copyPending,
                    serverVars >>

(***************************************************************************)
(* handleAnalyze (App.jsx 114-157).                                        *)
(***************************************************************************)
NotReadyMessage ==
    "Please enter a topic/problem statement or upload a PDF to continue."

AnalysisFailedMessage == "Analysis failed. Please try again."

SomethingWrongMessage == "Something went wrong. Please try again."

\* fetch(`${API_PREFIX}/analyze`, {method: 'POST', body: formData})
\* (App.jsx 126-132)
MultipartRequest(f, l) ==
    [ url |-> "/api/analyze",
      contentType |-> "multipart/form-data",
      body |-> [file |-> f, answer_length |-> l] ]

\* fetch(`${API_PREFIX}/analyze`, {method: 'POST', headers, body:
\* JSON.stringify({text, answer_length})}) (App.jsx 134-138)
JsonRequest(t, l) ==
    [ url |-> "/api/analyze",
      contentType |-> "application/json",
      body |-> [text |-> t, answer_length |-> l] ]

\* The mutant of AnalyzeRequest that also posts the group notes.
AnalyzeRequestWithNotes ==
    IF mode = "pdf" /\ fileValue # Null
    THEN MultipartRequest(fileValue, answerLength)
    ELSE [ url |-> "/api/analyze",
           contentType |-> "application/json",
           body |-> [ text |-> structuredText,
                      answer_length |-> answerLength,
                      notes |-> notesByHat ] ]

\* The request handleAnalyze sends in the current state (App.jsx 125-139).
AnalyzeRequest ==
    IF mode = "pdf" /\ fileValue # Null
    THEN MultipartRequest(fileValue, answerLength)
    ELSE JsonRequest(structuredText, answerLength)

\* The mutant of AnalyzeRejected that lets every submission through.
AnalyzeNeverRejected == FALSE

\* The readiness check of handleAnalyze (App.jsx 116).
AnalyzeRejected == ~isReadyToAnalyze

\* The mutant of AnalyzeDisabled that leaves the button enabled while an
\* analysis is loading.
AnalyzeNeverDisabled == FALSE

\* "Generate hat outputs" is disabled={loading} (App.jsx 414).
AnalyzeDisabled == loading

\* The mutant of ErrorAtStart that keeps the banner of an earlier failure.
ErrorKeptAtStart == error

\* setError('') on entry (App.jsx 115)
ErrorAtStart == ""

\* The mutant of handleAnalyze that clears the previous analysis before the
\* readiness check.
handleAnalyzeClearsFirst ==
    /\ ~AnalyzeDisabled
    /\ analysis' = Null
    /\ analysisMeta' = Null
    /\ IF AnalyzeRejected
       THEN /\ error' = NotReadyMessage
            /\ UNCHANGED << loading, analyzeReq >>
       ELSE /\ error' = ""
            /\ loading' = TRUE
            /\ analyzeReq' = AnalyzeRequest
    /\ UNCHANGED << fieldVars, inputVars, viewVars, downloadLoading,
                    notesByHat, pdfReq, copyPending, serverVars >>

\* The click on "Generate hat outputs" up to the await of fetch
\* (App.jsx 114-139).
handleAnalyze ==
    /\ ~AnalyzeDisabled
    /\ IF AnalyzeRejected
       THEN /\ error' = NotReadyMessage
            /\ UNCHANGED << loading, analysis, analysisMeta, analyzeReq >>
       ELSE /\ error' = ErrorAtStart
            /\ loading' = TRUE
            /\ analysis' = Null
            /\ analysisMeta' = Null
            /\ analyzeReq' = AnalyzeRequest
    /\ UNCHANGED << fieldVars, inputVars, viewVars, downloadLoading,
                    notesByHat, pdfReq, copyPending, serverVars >>

\* How the awaited fetch ends: a Response, or a rejection with a message.
Resolved(r) == [kind |-> "response", response |-> r]

Rejected(m) == [kind |-> "reject", message |-> m]

\* A Response whose body is not JSON: response.json() rejects.
NotJson == [unparsable |-> TRUE]

\* The messages of what fetch() rejects with; "" stands for a thrown value
\* with no message.
FetchErrorMessages == { "Failed to fetch", "" }

\* The messages of what response.json() rejects with.
JsonErrorMessages == { "Unexpected token < in JSON at position 0", "" }

\* catch (err) { setError(err.message || 'Something went wrong...') }
\* (App.jsx 152-153)
CaughtMessage(m) == IF m # "" THEN m ELSE SomethingWrongMessage

\* The message of the Error thrown for a non-2xx response:
\* detail = await response.json().catch(() => ({}));
\* detail.detail || 'Analysis failed. Please try again.' (App.jsx 141-144)
NotOkMessage(body) ==
    IF "detail" \in DOMAIN body /\ body.detail # ""
    THEN body.detail
    ELSE AnalysisFailedMessage

\* The mutant of StoredAnalysis that stores the whole response body.
StoredAnalysisWholeBody(data) == data

\* data.analysis of a parsed 2xx body (App.jsx 146-147).
StoredAnalysis(data) == data.analysis

\* data?.meta of a parsed 2xx body (App.jsx 146-148): it tells the answer
\* length the analysis of that body was produced under; Null when the body
\* has none.
ResponseMeta(data) ==
    IF "meta" \in DOMAIN data THEN data.meta ELSE Null

\* if (data?.meta?.answer_length) setAnswerLength(data.meta.answer_length)
\* (App.jsx 148)
StoredAnswerLength(data) ==
    IF /\ "meta" \in DOMAIN data
       /\ "answer_length" \in DOMAIN data.meta
       /\ data.meta.answer_length # ""
    THEN data.meta.answer_length
    ELSE answerLength

\* The mutant of LoadingAfter that resets loading in the try block only.
LoadingAfterTryOnly(outcome) ==
    IF outcome.kind = "response" /\ outcome.response.ok
       /\ outcome.response.body # NotJson
    THEN FALSE
    ELSE loading

\* finally { setLoading(false) } (App.jsx 154-156)
LoadingAfter(outcome) == FALSE

\* The mutant of SelectedHatAfterSuccess that keeps the hat selected before.
SelectedHatKept == selectedHat

\* setSelectedHat('blue') (App.jsx 149)
SelectedHatAfterSuccess == "blue"

\* The rest of handleAnalyze once fetch has settled (App.jsx 141-156):
\* the try block's tail, the catch and the finally.  m is the message of
\* the error response.json() throws when the body is not JSON.
AnalyzeSettled(outcome, m) ==
    /\ loading' = LoadingAfter(outcome)
    /\ IF outcome.kind = "reject"
       THEN /\ error' = CaughtMessage(outcome.message)
            /\ UNCHANGED << analysis, analysisMeta, answerLength,
                            selectedHat, hatMenuOpen >>
       ELSE IF ~outcome.response.ok
       THEN /\ error' = CaughtMessage(NotOkMessage(outcome.response.body))
            /\ UNCHANGED << analysis, analysisMeta, answerLength,
                            selectedHat, hatMenuOpen >>
       ELSE IF outcome.response.body = NotJson
       THEN /\ error' = CaughtMessage(m)
            /\ UNCHANGED << analysis, analysisMeta, answerLength,
                            selectedHat, hatMenuOpen >>
       ELSE /\ analysis' = StoredAnalysis(outcome.response.body)
            /\ analysisMeta' = ResponseMeta(outcome.response.body)
            /\ answerLength' = StoredAnswerLength(outcome.response.body)
            /\ selectedHat' = SelectedHatAfterSuccess
            /\ hatMenuOpen' = FALSE
            /\ UNCHANGED error
    /\ UNCHANGED << fieldVars, mode, fileValue, downloadLoading, notesByHat,
                    isMobile, pdfReq, copyPending >>

(***************************************************************************)
(* The analysis endpoint, POST /api/analyze: the Hat Orchestrator.  One    *)
(* backend call per role, independent of each other and completing in any  *)
(* order; a failed or timed-out call becomes that role's error result.     *)
(***************************************************************************)
\* The text a successful backend call returns for a role.
HatOutput ==
    [ blue |-> "blue hat output", white |-> "white hat output",
      red |-> "red hat output", yellow |-> "yellow hat output",
      black |-> "black hat output", green |-> "green hat output" ]

BackendErrorMessage == "The language model did not answer for this hat."

\* HatResult of a role whose call ended as `result`.
HatResult(h, result) ==
    IF result = "ok"
    THEN [role |-> h, status |-> "ok", content |-> HatOutput[h]]
    ELSE [role |-> h, status |-> "error", message |-> BackendErrorMessage]

\* AnalysisResult: the six HatResults keyed by role.
BuildAnalysis(c) == [h \in HatKeys |-> HatResult(h, c[h])]

\* 200 {analysis, meta: {answer_length}}
OkResponse(a, l) ==
    [ok |-> TRUE, status |-> 200,
     body |-> [analysis |-> a, meta |-> [answer_length |-> l]]]

\* non-2xx with the given body
ErrorResponse(code, body) == [ok |-> FALSE, status |-> code, body |-> body]

ValidationDetail == "No text was provided for analysis."

UnsupportedDocumentDetail == "No extractable text was found in the PDF."

UnavailableDetail == "The analysis service is unavailable."

\* Input Normalizer: the reason a request is refused, or "" when it yields
\* a document.
NormalizeFailure(req) ==
    IF "file" \in DOMAIN req.body
    THEN IF req.body.file = Null THEN ValidationDetail
         ELSE IF ~req.body.file.hasText THEN UnsupportedDocumentDetail
         ELSE ""
    ELSE IF Trim(req.body.text) = << >> THEN ValidationDetail
    ELSE ""

\* The endpoint takes the request: a refused document is answered at once,
\* otherwise the six calls are dispatched.
ServerAccept ==
    /\ analyzeReq # Null
    /\ srv = "idle"
    /\ IF NormalizeFailure(analyzeReq) # ""
       THEN /\ serverResp' =
                ErrorResponse(400, [detail |-> NormalizeFailure(analyzeReq)])
            /\ srv' = "responded"
            /\ calls' = [h \in HatKeys |-> "idle"]
       ELSE /\ srv' = "running"
            /\ calls' = [h \in HatKeys |-> "pending"]
            /\ UNCHANGED serverResp
    /\ UNCHANGED << fieldVars, inputVars, viewVars, analysis,
                    analysisMeta, loading, error,
                    downloadLoading, notesByHat, analyzeReq, pdfReq,
                    copyPending >>

\* Total backend unavailability: a top-level error before any role result;
\* a gateway in front of the service answers with a body that is not JSON.
ServerUnavailable ==
    /\ analyzeReq # Null
    /\ srv = "idle"
    /\ \E body \in { [detail |-> UnavailableDetail], NotJson } :
           serverResp' = ErrorResponse(503, body)
    /\ srv' = "responded"
    /\ calls' = [h \in HatKeys |-> "idle"]
    /\ UNCHANGED << fieldVars, inputVars, viewVars, analysis,
                    analysisMeta, loading, error,
                    downloadLoading, notesByHat, analyzeReq, pdfReq,
                    copyPending >>

\* The backend call of role h returns text.
CallSucceeds(h) ==
    /\ srv = "running"
    /\ calls[h] = "pending"
    /\ calls' = [calls EXCEPT ![h] = "ok"]
    /\ UNCHANGED << fieldVars, inputVars, viewVars, analysis,
                    analysisMeta, loading, error,
                    downloadLoading, notesByHat, analyzeReq, pdfReq,
                    copyPending, srv, serverResp >>

\* The backend call of role h fails (rate limit, malformed or empty answer,
\* its own timeout).
CallFails(h) ==
    /\ srv = "running"
    /\ calls[h] = "pending"
    /\ calls' = [calls EXCEPT ![h] = "failed"]
    /\ UNCHANGED << fieldVars, inputVars, viewVars, analysis,
                    analysisMeta, loading, error,
                    downloadLoading, notesByHat, analyzeReq, pdfReq,
                    copyPending, srv, serverResp >>

\* The overall timeout: every role still pending is reported as failed.
Timeout ==
    /\ srv = "running"
    /\ \E h \in HatKeys : calls[h] = "pending"
    /\ calls' = [h \in HatKeys |->
                    IF calls[h] = "pending" THEN "failed" ELSE calls[h]]
    /\ UNCHANGED << fieldVars, inputVars, viewVars, analysis,
                    analysisMeta, loading, error,
                    downloadLoading, notesByHat, analyzeReq, pdfReq,
                    copyPending, srv, serverResp >>

\* The mutant of FanIn that fails the whole request when a call failed.
FanInFailFast(c, l) ==
    IF \E h \in HatKeys : c[h] = "failed"
    THEN ErrorResponse(502, [detail |-> BackendErrorMessage])
    ELSE OkResponse(BuildAnalysis(c), l)

\* The response made of the six ended calls c for answer length l.
FanIn(c, l) == OkResponse(BuildAnalysis(c), l)

\* Fan-in: all six calls have ended; the endpoint answers 200.
ServerRespond ==
    /\ srv = "running"
    /\ \A h \in HatKeys : calls[h] \in { "ok", "failed" }
    /\ serverResp' = FanIn(calls, analyzeReq.body.answer_length)
    /\ srv' = "responded"
    /\ UNCHANGED << fieldVars, inputVars, viewVars, analysis,
                    analysisMeta, loading, error,
                    downloadLoading, notesByHat, analyzeReq, pdfReq,
                    copyPending, calls >>

\* The awaited fetch resolves with the endpoint's response (App.jsx 129,
\* 134) and handleAnalyze runs to its end.
FetchResolves ==
    /\ analyzeReq # Null
    /\ serverResp # Null
    /\ \E m \in JsonErrorMessages : AnalyzeSettled(Resolved(serverResp), m)
    /\ analyzeReq' = Null
    /\ serverResp' = Null
    /\ srv' = "idle"
    /\ UNCHANGED calls

\* The awaited fetch rejects (the network fails, the connection drops) and
\* handleAnalyze runs to its end; the endpoint drops the request.
FetchRejects ==
    /\ analyzeReq # Null
    /\ \E m \in FetchErrorMessages : AnalyzeSettled(Rejected(m), m)
    /\ analyzeReq' = Null
    /\ serverResp' = Null
    /\ srv' = "idle"
    /\ UNCHANGED calls

\* The outcomes of the six calls with at most n of them failed.
CompletedCalls(n) ==
    { c \in [HatKeys -> { "ok", "failed" }] :
        Cardinality({ h \in HatKeys : c[h] = "failed" }) <= n }

\* Every response the endpoint, or a gateway in front of it, can give to
\* request req when at most n calls fail.
EndpointResponses(req, n) ==
    IF NormalizeFailure(req) # ""
    THEN { ErrorResponse(400, [detail |-> NormalizeFailure(req)]) }
    ELSE { FanIn(c, req.body.answer_length) :
               c \in CompletedCalls(n) }
         \cup { ErrorResponse(503, [detail |-> UnavailableDetail]),
                ErrorResponse(503, NotJson),
                [ok |-> TRUE, status |-> 200, body |-> NotJson] }

\* The endpoint seen from the client as one step: the awaited fetch
\* resolves with one of the endpoint's responses.
EndpointAnswers(n) ==
    /\ analyzeReq # Null
    /\ srv = "idle"
    /\ \E r \in EndpointResponses(analyzeReq, n), m \in JsonErrorMessages :
           AnalyzeSettled(Resolved(r), m)
    /\ analyzeReq' = Null
    /\ UNCHANGED serverVars

(***************************************************************************)
(* Hat selection and the result card.                                      *)
(***************************************************************************)
\* The media-query listener `update` (App.jsx 166-170).
MediaChange(mobile) ==
    /\ isMobile' = mobile
    /\ hatMenuOpen' = IF ~mobile THEN FALSE ELSE hatMenuOpen
    /\ UNCHANGED << fieldVars, inputVars, analysis, analysisMeta,
                    selectedHat, loading,
                    error, downloadLoading, notesByHat, analyzeReq, pdfReq,
                    copyPending, serverVars >>

\* The mutant of HatTabsDisabled that leaves the hat tabs enabled.
HatTabsNeverDisabled == FALSE

\* Every hat tab, desktop or mobile, is disabled={!analysis}
\* (App.jsx 469, 491, 508).
HatTabsDisabled == analysis = Null

\* onClick of a desktop hat tab (App.jsx 500-514).
SelectHat(h) ==
    /\ ~isMobile
    /\ ~HatTabsDisabled
    /\ selectedHat' = h
    /\ UNCHANGED << fieldVars, inputVars, analysis, analysisMeta, loading,
                    error,
                    downloadLoading, notesByHat, isMobile, hatMenuOpen,
                    analyzeReq, pdfReq, copyPending, serverVars >>

\* onClick of the active hat on mobile: analysis && setHatMenuOpen((v) => !v)
\* (App.jsx 461-476).
ToggleHatMenu ==
    /\ isMobile
    /\ ~HatTabsDisabled
    /\ analysis # Null
    /\ hatMenuOpen' = ~hatMenuOpen
    /\ UNCHANGED << fieldVars, inputVars, analysis, analysisMeta,
                    selectedHat, loading,
                    error, downloadLoading, notesByHat, isMobile, analyzeReq,
                    pdfReq, copyPending, serverVars >>

\* onClick of another hat in the expanded mobile menu (App.jsx 479-497).
SelectHatMobile(h) ==
    /\ isMobile
    /\ hatMenuOpen
    /\ h # selectedHat
    /\ ~HatTabsDisabled
    /\ selectedHat' = h
    /\ hatMenuOpen' = FALSE
    /\ UNCHANGED << fieldVars, inputVars, analysis, analysisMeta, loading,
                    error,
                    downloadLoading, notesByHat, isMobile, analyzeReq,
                    pdfReq, copyPending, serverVars >>

\* JavaScript undefined, as analysis?.[selectedHat] gives it.
Undefined == [undefined |-> TRUE]

\* The mutant of activeAnalysis that always reads the blue hat.
activeAnalysisBlue ==
    IF analysis = Null THEN Undefined
    ELSE IF "blue" \in DOMAIN analysis THEN analysis["blue"]
    ELSE Undefined

\* const activeAnalysis = analysis?.[selectedHat] (App.jsx 229)
activeAnalysis ==
    IF analysis = Null THEN Undefined
    ELSE IF selectedHat \in DOMAIN analysis THEN analysis[selectedHat]
    ELSE Undefined

\* activeAnalysis?.status
ActiveStatus ==
    IF "status" \in DOMAIN activeAnalysis THEN activeAnalysis.status
    ELSE "undefined"

\* What .analysis-card renders (App.jsx 542-558): the set of its children.
AnalysisCard ==
    (IF analysis = Null THEN { [shows |-> "empty"] } ELSE { })
    \cup (IF analysis # Null /\ ActiveStatus = "error"
          THEN { [shows |-> "error", text |-> activeAnalysis.message] }
          ELSE { })
    \cup (IF analysis # Null /\ ActiveStatus = "ok"
          THEN { [shows |-> "content", text |-> activeAnalysis.content] }
          ELSE { })

(***************************************************************************)
(* Group notes (App.jsx 232-234, 568-584).                                 *)
(***************************************************************************)
\* The mutant of setNotesForHat that does not spread the previous notes.
setNotesForHatOnly(hatKey, value) ==
    /\ notesByHat' = [h \in HatKeys |-> IF h = hatKey THEN value ELSE << >>]
    /\ UNCHANGED << fieldVars, inputVars, viewVars, analysis, analysisMeta,
                    loading, error, downloadLoading, analyzeReq, pdfReq,
                    copyPending, serverVars >>

\* setNotesByHat((prev) => ({ ...prev, [hatKey]: value }))
setNotesForHat(hatKey, value) ==
    /\ notesByHat' = [notesByHat EXCEPT ![hatKey] = value]
    /\ UNCHANGED << fieldVars, inputVars, viewVars, analysis,
                    analysisMeta, loading, error,
                    downloadLoading, analyzeReq, pdfReq, copyPending,
                    serverVars >>

\* Characters held by the six notes after the selected hat's becomes v.
NoteChars(v) ==
    LET others == HatKeys \ { selectedHat }
        RECURSIVE Sum(_)
        Sum(S) ==
            IF S = { } THEN 0
            ELSE LET h == CHOOSE k \in S : TRUE
                 IN  Len(notesByHat[h]) + Sum(S \ { h })
    IN  Sum(others) + Len(v)

\* onChange of #group-notes (App.jsx 572)
EditNotes(v) == setNotesForHat(selectedHat, v)

\* onClick of "Clear notes", disabled={!notesByHat[selectedHat]}
\* (App.jsx 576-583)
ClearNotes ==
    /\ notesByHat[selectedHat] # << >>
    /\ setNotesForHat(selectedHat, << >>)

(***************************************************************************)
(* handleDownload (App.jsx 191-217).                                       *)
(***************************************************************************)
PdfFailedMessage == "Failed to generate PDF report."

DownloadFailedMessage == "Unable to download the report."

\* fetch(`${API_PREFIX}/generate-pdf`, ...) (App.jsx 195-199)
ReportRequest ==
    [ url |-> "/api/generate-pdf",
      contentType |-> "application/json",
      body |-> [ analysis |-> analysis,
                 answer_length |-> answerLength,
                 notes |-> notesByHat ] ]

\* The mutant of DownloadRefused without the early return.
DownloadNeverRefused == FALSE

\* `if (!analysis) return` (App.jsx 192)
DownloadRefused == analysis = Null

\* handleDownload up to the await of fetch (App.jsx 191-199).
handleDownload ==
    IF DownloadRefused
    THEN UNCHANGED vars
    ELSE /\ downloadLoading' = TRUE
         /\ pdfReq' = ReportRequest
         /\ UNCHANGED << fieldVars, inputVars, viewVars, analysis,
                         analysisMeta, loading,
                         error, notesByHat, analyzeReq, copyPending,
                         serverVars >>

\* "Download report" is disabled={!analysis || downloadLoading}
\* (App.jsx 438-445).
DownloadDisabled == analysis = Null \/ downloadLoading

\* The click on "Download report".
ClickDownload ==
    /\ ~DownloadDisabled
    /\ handleDownload

\* handleDownload called while there is no analysis and no download in
\* flight (the button is disabled then; only a direct call gets here).
DownloadWithoutAnalysis ==
    /\ analysis = Null
    /\ ~downloadLoading
    /\ handleDownload

\* The rest of handleDownload once fetch has settled (App.jsx 200-216).
DownloadSettled(outcome) ==
    /\ pdfReq # Null
    /\ downloadLoading' = FALSE
    /\ pdfReq' = Null
    /\ IF outcome.kind = "reject"
       THEN error' = (IF outcome.message # "" THEN outcome.message
                      ELSE DownloadFailedMessage)
       ELSE IF ~outcome.response.ok
       THEN error' = PdfFailedMessage
       ELSE UNCHANGED error
    /\ UNCHANGED << fieldVars, inputVars, viewVars, analysis,
                    analysisMeta, loading,
                    notesByHat, analyzeReq, copyPending, serverVars >>

\* POST /api/generate-pdf answers with the report.
ReportDelivered ==
    DownloadSettled(Resolved([ok |-> TRUE, status |-> 200]))

\* POST /api/generate-pdf answers non-2xx.
ReportRefused ==
    DownloadSettled(Resolved([ok |-> FALSE, status |-> 500]))

\* The fetch of the report rejects.
ReportFetchRejects ==
    \E m \in FetchErrorMessages : DownloadSettled(Rejected(m))

(***************************************************************************)
(* handleCopy (App.jsx 219-227).                                           *)
(***************************************************************************)
CopyFailedMessage == "Copy failed. Your browser may block clipboard access."

\* The click on "Copy hat output", disabled={!analysis ||
\* activeAnalysis?.status !== 'ok'} (App.jsx 446-453), up to the await.
handleCopy ==
    /\ analysis # Null
    /\ ActiveStatus = "ok"
    /\ copyPending' = TRUE
    /\ UNCHANGED << fieldVars, inputVars, viewVars, analysis,
                    analysisMeta, loading, error,
                    downloadLoading, notesByHat, analyzeReq, pdfReq,
                    serverVars >>

\* navigator.clipboard.writeText resolves.
CopySucceeds ==
    /\ copyPending
    /\ copyPending' = FALSE
    /\ UNCHANGED << fieldVars, inputVars, viewVars, analysis,
                    analysisMeta, loading, error,
                    downloadLoading, notesByHat, analyzeReq, pdfReq,
                    serverVars >>

\* navigator.clipboard.writeText rejects (App.jsx 224-226).
CopyFails ==
    /\ copyPending
    /\ copyPending' = FALSE
    /\ error' = CopyFailedMessage
    /\ UNCHANGED << fieldVars, inputVars, viewVars, analysis,
                    analysisMeta, loading,
                    downloadLoading, notesByHat, analyzeReq, pdfReq,
                    serverVars >>

(***************************************************************************)
(* Typing: the user replaces a field by any text over S, n being the       *)
(* number of characters the five fields hold in all.                       *)
(***************************************************************************)
TypeTopic(S, n) ==
    \E v \in Strings(S, n) :
        FieldChars(Len(topic), v) <= n /\ SetTopic(v)

TypeDecision(S, n) ==
    \E v \in Strings(S, n) :
        FieldChars(Len(decision), v) <= n /\ SetDecision(v)

TypeStakeholders(S, n) ==
    \E v \in Strings(S, n) :
        FieldChars(Len(stakeholders), v) <= n /\ SetStakeholders(v)

TypeConstraints(S, n) ==
    \E v \in Strings(S, n) :
        FieldChars(Len(constraints), v) <= n /\ SetConstraints(v)

TypeContext(S, n) ==
    \E v \in Strings(S, n) :
        FieldChars(Len(context), v) <= n /\ SetContext(v)

\* The user replaces the selected hat's note, n being the number of
\* characters the six notes hold in all.
TypeNotes(n) ==
    \E v \in Strings({ "n" }, n) : NoteChars(v) <= n /\ EditNotes(v)

(***************************************************************************)
(* SpecText: the template fields alone, every text of up to MaxTextChars   *)
(* characters in all; structuredText is recomputed from them in each       *)
(* state.                                                                  *)
(***************************************************************************)
NextText ==
    \/ TypeTopic(Alphabet, MaxTextChars)
    \/ TypeDecision(Alphabet, MaxTextChars)
    \/ TypeStakeholders(Alphabet, MaxTextChars)
    \/ TypeConstraints(Alphabet, MaxTextChars)
    \/ TypeContext(Alphabet, MaxTextChars)

SpecText == Init /\ [][NextText]_vars

(***************************************************************************)
(* SpecInput: what the user submits and what handleAnalyze sends for it.   *)
(* The endpoint is seen as one step and answers with every role ok, or     *)
(* with an error.                                                          *)
(***************************************************************************)
NextInput ==
    \/ TypeTopic(Alphabet, MaxFieldChars)
    \/ TypeDecision(Alphabet, MaxFieldChars)
    \/ TypeStakeholders(Alphabet, MaxFieldChars)
    \/ TypeConstraints(Alphabet, MaxFieldChars)
    \/ TypeContext(Alphabet, MaxFieldChars)
    \/ \E m \in { "text", "pdf" } : SetMode(m)
    \/ \E f \in Files \cup { Null } : SetFileValue(f)
    \/ \E l \in { "long", "short" } : SetAnswerLength(l)
    \/ handleAnalyze
    \/ EndpointAnswers(0)
    \/ FetchRejects

SpecInput == Init /\ [][NextInput]_vars

(***************************************************************************)
(* SpecFanout: one topic, the endpoint step by step (the six calls end in  *)
(* any order, each ok or failed), and the hat tabs.                        *)
(***************************************************************************)
NextFanout ==
    \/ TypeTopic({ "a" }, MaxTopicLen)
    \/ handleAnalyze
    \/ ServerAccept
    \/ ServerUnavailable
    \/ \E h \in HatKeys : CallSucceeds(h)
    \/ \E h \in HatKeys : CallFails(h)
    \/ Timeout
    \/ ServerRespond
    \/ FetchResolves
    \/ FetchRejects
    \/ \E h \in HatKeys : SelectHat(h)

SpecFanout == Init /\ [][NextFanout]_vars

(***************************************************************************)
(* SpecExport: analyses, the blue hat's note and report downloads.         *)
(***************************************************************************)
NextExport ==
    \/ TypeTopic({ "a" }, MaxTopicLen)
    \/ handleAnalyze
    \/ EndpointAnswers(MaxFailedRoles)
    \/ FetchRejects
    \/ TypeNotes(MaxNoteChars)
    \/ ClearNotes
    \/ ClickDownload
    \/ DownloadWithoutAnalysis
    \/ ReportDelivered
    \/ ReportRefused
    \/ ReportFetchRejects

SpecExport == Init /\ [][NextExport]_vars

(***************************************************************************)
(* SpecNotes: analyses, hat selection and the notes of the six hats.       *)
(***************************************************************************)
NextNotes ==
    \/ TypeTopic({ "a" }, MaxTopicLen)
    \/ handleAnalyze
    \/ EndpointAnswers(MaxFailedRoles)
    \/ FetchRejects
    \/ \E h \in HatKeys : SelectHat(h)
    \/ TypeNotes(MaxNoteChars)
    \/ ClearNotes

SpecNotes == Init /\ [][NextNotes]_vars

(***************************************************************************)
(* SpecLive: the endpoint step by step with clipboard copies going on.     *)
(* The endpoint accepts a request that waits, its overall timeout fires    *)
(* while calls are pending, it answers once the six calls have ended, and  *)
(* an answer on its way reaches the client.  Nothing is assumed of the     *)
(* language-model backend: a call may never end.                           *)
(***************************************************************************)
NextLive ==
    \/ TypeTopic({ "a" }, MaxTopicLen)
    \/ handleAnalyze
    \/ ServerAccept
    \/ ServerUnavailable
    \/ \E h \in HatKeys : CallSucceeds(h)
    \/ \E h \in HatKeys : CallFails(h)
    \/ Timeout
    \/ ServerRespond
    \/ FetchResolves
    \/ FetchRejects
    \/ handleCopy
    \/ CopySucceeds
    \/ CopyFails

SpecLive ==
    /\ Init
    /\ [][NextLive]_vars
    /\ WF_vars(ServerAccept)
    /\ WF_vars(Timeout)
    /\ WF_vars(ServerRespond)
    /\ WF_vars(FetchResolves)

(***************************************************************************)
(* SpecDownload: answer-length toggles, analyses, report downloads and     *)
(* clipboard copies.                                                       *)
(***************************************************************************)
NextDownload ==
    \/ TypeTopic({ "a" }, MaxTopicLen)
    \/ \E l \in { "long", "short" } : SetAnswerLength(l)
    \/ handleAnalyze
    \/ EndpointAnswers(0)
    \/ FetchRejects
    \/ ClickDownload
    \/ ReportDelivered
    \/ ReportRefused
    \/ ReportFetchRejects
    \/ handleCopy
    \/ CopySucceeds
    \/ CopyFails

SpecDownload == Init /\ [][NextDownload]_vars

(***************************************************************************)
(* SpecReject: submissions in both modes, with or without a file, while    *)
(* an earlier analysis, a selected hat and notes are held.                 *)
(***************************************************************************)
NextReject ==
    \/ TypeTopic({ "a" }, MaxTopicLen)
    \/ \E m \in { "text", "pdf" } : SetMode(m)
    \/ \E f \in Files \cup { Null } : SetFileValue(f)
    \/ handleAnalyze
    \/ EndpointAnswers(0)
    \/ FetchRejects
    \/ \E h \in HatKeys : SelectHat(h)
    \/ TypeNotes(MaxNoteChars)
    \/ ClearNotes

SpecReject == Init /\ [][NextReject]_vars

(***************************************************************************)
(* SpecMobile: analyses and hat selection on a screen that changes between *)
(* the desktop and the mobile layout.                                      *)
(***************************************************************************)
NextMobile ==
    \/ TypeTopic({ "a" }, MaxTopicLen)
    \/ handleAnalyze
    \/ EndpointAnswers(MaxFailedRoles)
    \/ FetchRejects
    \/ \E mobile \in BOOLEAN : MediaChange(mobile)
    \/ \E h \in HatKeys : SelectHat(h)
    \/ ToggleHatMenu
    \/ \E h \in HatKeys : SelectHatMobile(h)

SpecMobile == Init /\ [][NextMobile]_vars

(***************************************************************************)
(* SpecReport: notes written on several hats across analyses and report    *)
(* downloads.                                                              *)
(***************************************************************************)
\* The hats the user visits.
VisitedHats == { "blue", "red", "green" }

NextReport ==
    \/ TypeTopic({ "a" }, MaxTopicLen)
    \/ handleAnalyze
    \/ EndpointAnswers(0)
    \/ FetchRejects
    \/ \E h \in VisitedHats : SelectHat(h)
    \/ TypeNotes(MaxReportNoteChars)
    \/ ClearNotes
    \/ ClickDownload
    \/ ReportDelivered
    \/ ReportRefused
    \/ ReportFetchRejects

SpecReport == Init /\ [][NextReport]_vars

(***************************************************************************)
(* Properties.                                                             *)
(***************************************************************************)
\* a is an AnalysisResult: exactly the six role keys, each holding the
\* HatResult of its own role with status ok or error.
IsAnalysisResult(a) ==
    /\ DOMAIN a = HatKeys
    /\ \A h \in HatKeys :
           /\ a[h].role = h
           /\ a[h].status \in { "ok", "error" }

\* C1: every analysis the endpoint answers with, and every non-null
\* analysis the client stores, has exactly one HatResult for each of the
\* six roles - no role missing, no extra key - whichever calls failed.
C1_SixHatResults ==
    /\ (serverResp # Null /\ serverResp.ok)
           => IsAnalysisResult(serverResp.body.analysis)
    /\ analysis # Null => IsAnalysisResult(analysis)

\* C1 witness: the client holds an analysis in which some calls failed and
\* some succeeded.
C1_Witness ==
    /\ analysis # Null
    /\ calls["red"] = "failed"
    /\ calls["green"] = "failed"
    /\ calls["blue"] = "ok"
    /\ analysis["red"].status = "error"
    /\ analysis["blue"].status = "ok"

FailedCalls == { h \in HatKeys : calls[h] = "failed" }

AllCallsEnded == \A h \in HatKeys : calls[h] \in { "ok", "failed" }

\* a reports each role as its call ended: error with a message for a
\* failed call, ok with the call's text for a successful one.
ReportsCalls(a) ==
    \A h \in HatKeys :
        /\ calls[h] = "failed" =>
               /\ a[h].status = "error"
               /\ a[h].message # ""
        /\ calls[h] = "ok" =>
               /\ a[h].status = "ok"
               /\ a[h].content = HatOutput[h]

\* C2: a failed call is contained to its role.  Once the six calls have
\* ended, in whatever order, the endpoint's answer is a 200 whose analysis
\* reports every failed role as error with a message and every successful
\* role as ok with its content; the client stores and shows it as such;
\* exactly one failed call gives five ok entries and one error entry.
C2_FailureContained ==
    /\ (srv = "responded" /\ AllCallsEnded) =>
           /\ serverResp.ok
           /\ serverResp.status = 200
           /\ ReportsCalls(serverResp.body.analysis)
    /\ analysis # Null =>
           /\ AllCallsEnded
           /\ ReportsCalls(analysis)
           /\ calls[selectedHat] = "failed" =>
                  AnalysisCard =
                      { [shows |-> "error", text |-> BackendErrorMessage] }
           /\ calls[selectedHat] = "ok" =>
                  AnalysisCard =
                      { [shows |-> "content", text |-> HatOutput[selectedHat]] }
           /\ Cardinality(FailedCalls) = 1 =>
                  /\ Cardinality({ h \in HatKeys :
                                     analysis[h].status = "error" }) = 1
                  /\ Cardinality({ h \in HatKeys :
                                     analysis[h].status = "ok" }) = 5

\* C2 witness: exactly one call (yellow's) failed, the client holds the
\* analysis and the user looks at the failed hat.
C2_Witness ==
    /\ analysis # Null
    /\ FailedCalls = { "yellow" }
    /\ selectedHat = "yellow"
    /\ error = ""
    /\ ~loading

\* C3 (as claimed): a text-mode submission whose topic is blank yields the
\* validation error and sends no POST /api/analyze, whatever the other
\* fields hold.
C3_BlankTopicNeverPosted ==
    [][(mode = "text" /\ Trim(topic) = << >> /\ handleAnalyze)
           => (error' = NotReadyMessage /\ analyzeReq' = Null)]_vars

TemplateFields == << topic, decision, stakeholders, constraints, context >>

TemplateHeadings ==
    << TopicHeading, DecisionHeading, StakeholdersHeading,
       ConstraintsHeading, ContextHeading >>

\* The sections of the fields from the i-th on: for each non-blank field,
\* in order, its heading, a line break and its trimmed value.
RECURSIVE SectionsFrom(_)
SectionsFrom(i) ==
    IF i > Len(TemplateFields) THEN << >>
    ELSE (IF Trim(TemplateFields[i]) # << >>
          THEN << TemplateHeadings[i] \o << "\n" >> \o Trim(TemplateFields[i]) >>
          ELSE << >>)
         \o SectionsFrom(i + 1)

\* C4: the structured text is the sections of the non-blank fields in the
\* order topic, decision, stakeholders, constraints, context, each its
\* heading followed on the next line by its trimmed value, one blank line
\* between sections; a blank field contributes nothing; the text has no
\* leading or trailing white space and is empty exactly when all five
\* fields are blank.
C4_StructuredText ==
    /\ structuredText = Join(SectionsFrom(1), << "\n", "\n" >>)
    /\ structuredText # << >> =>
           /\ structuredText[1] \notin WhiteSpace
           /\ structuredText[Len(structuredText)] \notin WhiteSpace
    /\ structuredText = << >> <=>
           \A i \in 1..Len(TemplateFields) : Trim(TemplateFields[i]) = << >>

\* C4 witness: a white-space topic, a decision and a context typed with
\* spaces around them, nothing else.
C4_Witness ==
    /\ topic = << " " >>
    /\ decision = << " ", "a" >>
    /\ context = << "a" >>
    /\ structuredText =
           DecisionHeading \o << "\n", "a", "\n", "\n" >>
               \o ContextHeading \o << "\n", "a" >>

\* The requests in flight.
InFlight == { r \in { analyzeReq, pdfReq } : r # Null }

C6_NoReportWithoutAnalysis ==
    /\ [](pdfReq # Null => pdfReq.body.analysis # Null)
    /\ [][analysis = Null => (pdfReq' = pdfReq \/ pdfReq' = Null)]_vars
    /\ [][(analysis = Null /\ handleDownload) => UNCHANGED vars]_vars

\* C6 witness: an analysis has failed, none is held, no download is in
\* flight: handleDownload can be called and must do nothing.
C6_Witness ==
    /\ analysis = Null
    /\ ~loading
    /\ error = AnalysisFailedMessage
    /\ pdfReq = Null
    /\ ~downloadLoading
    /\ ENABLED DownloadWithoutAnalysis

\* r is a multipart form with the PDF file and answer_length.
IsMultipart(r) ==
    /\ r.contentType = "multipart/form-data"
    /\ DOMAIN r.body = { "file", "answer_length" }
    /\ r.body.file \in Files

\* r is a JSON body {text, answer_length} with a text that is not empty.
IsJsonWithText(r) ==
    /\ r.contentType = "application/json"
    /\ DOMAIN r.body = { "text", "answer_length" }
    /\ r.body.text # << >>

\* C7: an analyze request is the multipart form with the selected file when
\* the mode is 'pdf' and a file is selected, otherwise the JSON body with
\* the structured text; no multipart form goes without a file and no JSON
\* body with an empty text.
C7_TwoRequestShapes ==
    /\ [](analyzeReq # Null =>
              /\ analyzeReq.url = "/api/analyze"
              /\ analyzeReq.body.answer_length \in { "long", "short" }
              /\ IsMultipart(analyzeReq) \/ IsJsonWithText(analyzeReq))
    /\ [][(analyzeReq = Null /\ analyzeReq' # Null) =>
              IF mode = "pdf" /\ fileValue # Null
              THEN /\ IsMultipart(analyzeReq')
                   /\ analyzeReq'.body.file = fileValue
                   /\ analyzeReq'.body.answer_length = answerLength
              ELSE /\ IsJsonWithText(analyzeReq')
                   /\ analyzeReq'.body.text = structuredText
                   /\ analyzeReq'.body.answer_length = answerLength]_vars

\* C7 witness: in pdf mode with a file selected and template text typed as
\* well, the multipart form is in flight.
C7_Witness ==
    /\ mode = "pdf"
    /\ fileValue # Null
    /\ structuredText # << >>
    /\ analyzeReq # Null
    /\ IsMultipart(analyzeReq)

\* The detail texts the endpoint sends with a non-2xx answer.
ServerDetails ==
    { ValidationDetail, UnsupportedDocumentDetail, UnavailableDetail }

\* C8 (as claimed): when an analysis fails - a non-2xx answer, a rejected
\* fetch, a body that does not parse - the client ends with analysis null,
\* loading false and as error either the server's detail or one of the two
\* fixed fallback messages, and selectedHat and the notes are unchanged.
C8_FailureMessage ==
    [][(loading /\ ~loading' /\ analysis' = Null) =>
           /\ error' # ""
           /\ error' \in ServerDetails
                  \cup { AnalysisFailedMessage, SomethingWrongMessage }
           /\ selectedHat' = selectedHat
           /\ notesByHat' = notesByHat]_vars

\* C9: with an analysis present the result card shows exactly one thing for
\* the selected role - its message if its status is error, its content if
\* its status is ok - and never the empty placeholder; with no analysis it
\* shows the empty placeholder alone.
C9_ResultCard ==
    /\ analysis # Null =>
           /\ analysis[selectedHat].status = "error" =>
                  AnalysisCard =
                      { [shows |-> "error",
                         text |-> analysis[selectedHat].message] }
           /\ analysis[selectedHat].status = "ok" =>
                  AnalysisCard =
                      { [shows |-> "content",
                         text |-> analysis[selectedHat].content] }
           /\ Cardinality(AnalysisCard) = 1
           /\ [shows |-> "empty"] \notin AnalysisCard
    /\ analysis = Null => AnalysisCard = { [shows |-> "empty"] }

\* C9 witness: the selected hat is one whose call failed while the blue
\* hat's succeeded.
C9_Witness ==
    /\ analysis # Null
    /\ selectedHat = "black"
    /\ analysis["black"].status = "error"
    /\ analysis["blue"].status = "ok"

C11_OneRequestInFlight ==
    /\ [](loading <=> analyzeReq # Null)
    /\ [](downloadLoading <=> pdfReq # Null)
    /\ [][analyzeReq # Null =>
              (analyzeReq' = analyzeReq \/ analyzeReq' = Null)]_vars
    /\ [][pdfReq # Null => (pdfReq' = pdfReq \/ pdfReq' = Null)]_vars
    /\ [][(analysis' # analysis /\ analysis' # Null) =>
              /\ loading
              /\ ~loading'
              /\ analyzeReq # Null
              /\ analyzeReq' = Null]_vars

\* C11 witness: an analyze request and a report request are in flight
\* together, and the user has toggled the answer length and retyped the
\* topic since the analyze request left: another click would send a
\* different request.
C11_Witness ==
    /\ loading
    /\ downloadLoading
    /\ analyzeReq # Null
    /\ pdfReq # Null
    /\ AnalyzeRequest # analyzeReq
    /\ ~AnalyzeRejected

\* The five template fields are blank.
AllFieldsBlank ==
    \A i \in 1..Len(TemplateFields) : Trim(TemplateFields[i]) = << >>

\* C12: an analyze action in text mode with all fields blank, or in pdf
\* mode with no file selected, sends no request, sets a non-empty error
\* message and leaves analysis, loading, selectedHat and the notes as they
\* were: the result card shows what it showed and the report stays as
\* downloadable as it was.
C12_RejectedAnalyze ==
    [][(/\ \/ (mode = "text" /\ AllFieldsBlank)
            \/ (mode = "pdf" /\ fileValue = Null)
        /\ handleAnalyze)
           => /\ error' = NotReadyMessage
              /\ error' # ""
              /\ analyzeReq = Null
              /\ analyzeReq' = Null
              /\ analysis' = analysis
              /\ loading' = loading
              /\ selectedHat' = selectedHat
              /\ notesByHat' = notesByHat
              /\ AnalysisCard' = AnalysisCard
              /\ DownloadDisabled' = DownloadDisabled]_vars

\* C12 witness: in pdf mode with no file selected a submission has been
\* refused while an earlier analysis, the red hat and a note on it are
\* held.
C12_Witness ==
    /\ mode = "pdf"
    /\ fileValue = Null
    /\ error = NotReadyMessage
    /\ analysis # Null
    /\ ~loading
    /\ selectedHat = "red"
    /\ notesByHat["red"] # << >>
    /\ AnalysisCard # { [shows |-> "empty"] }
    /\ ~DownloadDisabled

\* C13 (as claimed): the answer_length a report request is sent with is
\* the one the analysis it carries was produced under, the value the
\* endpoint returned in meta.answer_length with that analysis.
C13_ReportAnswerLength ==
    [][(pdfReq = Null /\ pdfReq' # Null) =>
           /\ pdfReq'.body.analysis = analysis
           /\ analysisMeta # Null
           /\ pdfReq'.body.answer_length = analysisMeta.answer_length]_vars

\* C14: the step that ends an analysis with success leaves the blue hat
\* selected and the mobile hat menu closed, whatever hat was selected and
\* whether the menu was open before.
C14_BlueAfterSuccess ==
    [][(loading /\ ~loading' /\ analysis' # Null) =>
           /\ selectedHat' = "blue"
           /\ hatMenuOpen' = FALSE]_vars

\* C14 witness: an analysis is about to succeed while the red hat is
\* selected and the mobile menu is open.
C14_Witness ==
    /\ loading
    /\ isMobile
    /\ selectedHat = "red"
    /\ hatMenuOpen
    /\ ENABLED (EndpointAnswers(MaxFailedRoles) /\ analysis' # Null)

\* C15 (as claimed): the mobile hat menu is open only while it is usable:
\* hatMenuOpen implies that the layout is mobile and that an analysis is
\* present.
C15_MenuOpenOnlyUsable ==
    hatMenuOpen => (isMobile /\ analysis # Null)

\* C16: the notes mapping always has exactly the six hat keys; a step
\* changes at most the note of the selected hat and leaves the other five
\* as they were; a step that starts, completes or fails an analysis leaves
\* every note unchanged; and a report request carries the notes as they
\* are when it is sent.
C16_NotesPerHat ==
    /\ [](DOMAIN notesByHat = HatKeys)
    /\ [][\A h \in HatKeys \ { selectedHat } :
              notesByHat'[h] = notesByHat[h]]_vars
    /\ [][(loading' # loading \/ analysis' # analysis) =>
              notesByHat' = notesByHat]_vars
    /\ [][(pdfReq = Null /\ pdfReq' # Null) =>
              pdfReq'.body.notes = notesByHat]_vars

\* C16 witness: notes are held on two hats, a report request carrying
\* them is in flight, and a new analysis has been started since.
C16_Witness ==
    /\ notesByHat["red"] # << >>
    /\ notesByHat["green"] # << >>
    /\ pdfReq # Null
    /\ pdfReq.body.notes = notesByHat
    /\ loading
    /\ analysis = Null

\* C17 (as claimed): when an analysis completes successfully the error
\* banner is empty, also when a report download or a clipboard copy fails
\* while the analysis is in flight.
C17_NoErrorAfterSuccess ==
    [][(loading /\ ~loading' /\ analysis' # Null) => error' = ""]_vars

\* The messages handleDownload and handleCopy put on the banner.
OtherHandlersMessages ==
    { PdfFailedMessage, DownloadFailedMessage, CopyFailedMessage }
        \cup (FetchErrorMessages \ { "" })

\* C17 (amended): a successful analysis leaves the banner as it finds it;
\* the banner is emptied when the request starts, so that at success it is
\* empty or holds the message of a report download or clipboard copy that
\* failed while the analysis was in flight.
C17_BannerAfterSuccess ==
    /\ [](loading => error \in { "" } \cup OtherHandlersMessages)
    /\ [][(~loading /\ loading') => error' = ""]_vars
    /\ [][(loading /\ ~loading' /\ analysis' # Null) =>
              /\ error' = error
              /\ error' \in { "" } \cup OtherHandlersMessages]_vars

\* C17 witness: an analysis is about to succeed while the banner holds the
\* failure of a report download that ended during the request.
C17_Witness ==
    /\ loading
    /\ error = PdfFailedMessage
    /\ ~downloadLoading
    /\ ENABLED (EndpointAnswers(0) /\ analysis' # Null)

\* C18: selectedHat is always one of the six role keys, and while no
\* analysis is held no step changes it except the one that ends an
\* analysis with success, which resets it to blue: with analysis null the
\* hat tabs, desktop and mobile, select nothing.
C18_SelectedHat ==
    /\ [](selectedHat \in HatKeys)
    /\ [][(analysis = Null /\ selectedHat' # selectedHat) =>
              /\ loading
              /\ ~loading'
              /\ analysis' # Null
              /\ selectedHat' = "blue"]_vars

\* C18 witness: on the mobile layout the user had chosen the green hat,
\* then a new analysis failed: no analysis is held and green is still
\* selected.
C18_Witness ==
    /\ isMobile
    /\ analysis = Null
    /\ ~loading
    /\ error # ""
    /\ selectedHat = "green"

=============================================================================
